---- MODULE Spec2Model ----
(***************************************************************************)
(* Model of the logic scripts of the repository:                           *)
(*   Unification_Algorithm.py  Robinson unifier over Var / Const / Func    *)
(*   First_Order_Logic.py      flat-term unifier, resolve, fol_resolution  *)
(*   Unification.py            unifier over strs and (name, [args]) tuples *)
(*                                                                         *)
(* Python values are modelled as follows.                                  *)
(*   dict            a function whose DOMAIN is the set of keys; where the *)
(*                   order of the items matters, the sequence of the items *)
(*   str             where its characters matter, the sequence of them     *)
(*   None            a result record with st = "None"                      *)
(*   raised error    a result record / verdict naming the exception class  *)
(*   list vs tuple   the field argsType of a Predicate (a list cannot be   *)
(*                   hashed, so it cannot be put in a frozenset)           *)
(***************************************************************************)
EXTENDS Integers, Sequences, FiniteSets, TLC

VARIABLES
    mode,       \* which script the behaviour exercises
    subst,      \* the caller's substitution (the dict object it holds)
    call,       \* the last unification call: function, arguments, dict passed
    ret,        \* what that call returned and what it left in the dict passed
    ncalls,     \* number of unification calls made on the current substitution
    inp,        \* the prover's input: knowledge base, query, how it is built
    max_iters,  \* the step budget of the current run of fol_resolution
    pc,         \* where the prover is: "build", "call", "loop" or "done"
    verdict,    \* what the run returned, or the exception it raised
    exit,       \* why the run ended
    clauses,    \* fol_resolution: the clause store
    new,        \* fol_resolution: the pending resolvents
    pairs_checked,  \* fol_resolution: the pairs already resolved
    agenda,     \* fol_resolution: the work queue of clause pairs
    iterations, \* fol_resolution: the pairs popped so far
    last,       \* the last call of resolve: its pair and what it did
    prev        \* the outcome of the previous run on the same input

uvars == <<mode, subst, call, ret, ncalls>>
svars == <<inp, max_iters, pc, verdict, exit, clauses, new, pairs_checked,
           agenda, iterations, last, prev>>
vars == <<uvars, svars>>

(***************************************************************************)
(* Bounds of the model                                                     *)
(***************************************************************************)
\* unification calls threaded through one substitution
MaxCalls == 2
\* clauses of a generated knowledge base
MaxKB == 2
\* the small step budgets tried, 0..MaxIters
MaxIters == 2

(***************************************************************************)
(* Python dict helpers                                                     *)
(***************************************************************************)
EmptyDict == <<>>

\* d[k] = v on a dict value
Put(d, k, v) == [n \in (DOMAIN d) \cup {k} |-> IF n = k THEN v ELSE d[n]]

\* Result records of a unification call.  s is the returned dict, arg the
\* content of the dict object that was passed in, as the call leaves it.
Returned(s, a) == [st |-> "ok", s |-> s, arg |-> a]
ReturnedNone(a) == [st |-> "None", s |-> EmptyDict, arg |-> a]
Raised(a) == [st |-> "RecursionError", s |-> EmptyDict, arg |-> a]

(***************************************************************************)
(* Unification_Algorithm.py : terms                                        *)
(***************************************************************************)
Var(n) == [kind |-> "Var", name |-> n, args |-> <<>>]
Const(n) == [kind |-> "Const", name |-> n, args |-> <<>>]
Func(n, as) == [kind |-> "Func", name |-> n, args |-> as]

VarNames == {"x", "y"}
ConstNames == {"a", "b"}

\* The terms the calls are drawn from: atoms, f(atom), g(atom, atom).
Atoms == {Var(n) : n \in VarNames} \cup {Const(n) : n \in ConstNames}
Terms == Atoms \cup {Func("f", <<t>>) : t \in Atoms}
               \cup {Func("g", <<s, t>>) : s \in Atoms, t \in Atoms}

(***************************************************************************)
(* Unification_Algorithm.py : apply_subst, occurs_in                       *)
(***************************************************************************)
RECURSIVE apply_subst(_, _)

\* Mutant of apply_subst: a bound variable is replaced by its binding without
\* dereferencing the binding in turn.
apply_subst_one_step(s, term) ==
    IF term.kind = "Var" THEN
        IF term.name \in DOMAIN s THEN s[term.name] ELSE term
    ELSE IF term.kind = "Const" THEN term
    ELSE Func(term.name, [i \in 1..Len(term.args) |-> apply_subst(s, term.args[i])])

apply_subst(s, term) ==
    IF term.kind = "Var" THEN
        IF term.name \in DOMAIN s THEN apply_subst(s, s[term.name]) ELSE term
    ELSE IF term.kind = "Const" THEN term
    ELSE Func(term.name, [i \in 1..Len(term.args) |-> apply_subst(s, term.args[i])])

RECURSIVE occurs_in(_, _, _)
occurs_in(v, term, s) ==
    LET t == apply_subst(s, term) IN
    IF t.kind = "Var" THEN t.name = v.name
    ELSE IF t.kind = "Const" THEN FALSE
    ELSE \E i \in 1..Len(t.args) : occurs_in(v, t.args[i], s)

(***************************************************************************)
(* Unification_Algorithm.py : unify_terms                                  *)
(***************************************************************************)
\* Mutant of bind: the binding is written into the caller's dict.
bind_in_place(s, n, t) ==
    LET new_subst == Put(s, n, t) IN Returned(new_subst, new_subst)

\* new_subst = dict(subst); new_subst[name] = t; return new_subst
bind(s, n, t) ==
    LET new_subst == Put(s, n, t) IN Returned(new_subst, s)

\* Mutant of unify_var: no occurs-check.
unify_var_unchecked(v, t, s) == bind(s, v.name, t)

\* The two variable branches: occurs-check, then bind.
unify_var(v, t, s) ==
    IF occurs_in(v, t, s) THEN ReturnedNone(s) ELSE bind(s, v.name, t)

RECURSIVE unify_terms(_, _, _)
RECURSIVE unify_args(_, _, _, _)

\* Mutant of unify_args: the loop returns after the first argument pair.
unify_args_first_only(args1, args2, i, s) ==
    IF i > Len(args1) \/ i > Len(args2) \/ i > 1 THEN Returned(s, s)
    ELSE unify_terms(args1[i], args2[i], s)

\* for a1, a2 in zip(t1.args, t2.args): s = unify_terms(a1, a2, s)
\* s is the local dict; its result decides the loop, its arg is not the caller's.
unify_args(args1, args2, i, s) ==
    IF i > Len(args1) \/ i > Len(args2) THEN Returned(s, s)
    ELSE LET r == unify_terms(args1[i], args2[i], s) IN
         IF r.st # "ok" THEN r ELSE unify_args(args1, args2, i + 1, r.s)

unify_terms(term1, term2, s) ==
    LET t1 == apply_subst(s, term1)
        t2 == apply_subst(s, term2)
    IN  IF t1.kind = "Const" /\ t2.kind = "Const" /\ t1.name = t2.name
            THEN Returned(s, s)
        ELSE IF t1.kind = "Var" /\ t2.kind = "Var" /\ t1.name = t2.name
            THEN Returned(s, s)
        ELSE IF t1.kind = "Var" THEN unify_var(t1, t2, s)
        ELSE IF t2.kind = "Var" THEN unify_var(t2, t1, s)
        ELSE IF t1.kind = "Func" /\ t2.kind = "Func" THEN
            IF t1.name # t2.name \/ Len(t1.args) # Len(t2.args)
                THEN ReturnedNone(s)
            ELSE LET r == unify_args(t1.args, t2.args, 1, s) IN
                 [r EXCEPT !.arg = s]
        ELSE ReturnedNone(s)

\* unify(t1, t2) = unify_terms(t1, t2, {})
unify(t1, t2) == unify_terms(t1, t2, EmptyDict)

(***************************************************************************)
(* First_Order_Logic.py : datatypes                                        *)
(***************************************************************************)
Variable(n) == [kind |-> "Variable", name |-> n]
Constant(n) == [kind |-> "Constant", name |-> n]
\* Predicate(name, args); argsType tells whether args is a list or a tuple
Predicate(n, as, ty) == [name |-> n, args |-> as, argsType |-> ty]
Literal(p, ng) == [pred |-> p, neg |-> ng]

\* pred(name, *args) wraps the arguments in a list
pred(n, as) == Predicate(n, as, "list")
lit(p, ng) == Literal(p, ng)

is_var(t) == t.kind = "Variable"
is_const(t) == t.kind = "Constant"

\* Variable, Constant, Predicate and Literal are namedtuples, hence tuples:
\* == (and hash) look at the fields and not at the class, so that
\* Variable("x") == Constant("x").  The field kind is the class of the object,
\* which isinstance reads; the operators below are ==.
term_eq(s, t) == s.name = t.name

\* a list is equal to no tuple
pred_eq(p, q) ==
    /\ p.name = q.name
    /\ p.argsType = q.argsType
    /\ Len(p.args) = Len(q.args)
    /\ \A i \in 1..Len(p.args) : term_eq(p.args[i], q.args[i])

lit_eq(a, b) == pred_eq(a.pred, b.pred) /\ a.neg = b.neg

\* l in c, c a list or a frozenset of literals given as the set of its members
lit_in(l, c) == \E m \in c : lit_eq(l, m)

\* frozenset(lits): of equal literals the first of the list is the member
frozenset(lits) ==
    {lits[i] : i \in {j \in DOMAIN lits :
                        \A k \in 1..(j - 1) : ~lit_eq(lits[k], lits[j])}}

\* c == d on frozensets of literals
clause_eq(c, d) == (\A a \in c : lit_in(a, d)) /\ (\A b \in d : lit_in(b, c))

\* c in S, S a set of clauses
clause_in(c, S) == \E d \in S : clause_eq(c, d)

\* (c1, c2) in S, S a set of pairs of clauses
pair_in(pr, S) == \E q \in S : clause_eq(pr[1], q[1]) /\ clause_eq(pr[2], q[2])

\* S.add(c): a set keeps the member it has
set_add(S, c) == IF clause_in(c, S) THEN S ELSE S \cup {c}

\* mutant: the clauses of the list are told apart by their class as well
set_by_class(clause_list) == {clause_list[i] : i \in DOMAIN clause_list}

\* set(clause_list)
set_of(clause_list) ==
    {clause_list[i] : i \in {j \in DOMAIN clause_list :
                        \A k \in 1..(j - 1) : ~clause_eq(clause_list[k], clause_list[j])}}

\* for n in T: S.add(n), T holding no two equal clauses
set_update(S, T) == S \cup {c \in T : ~clause_in(c, S)}

(***************************************************************************)
(* First_Order_Logic.py : apply_subst_term / _pred / _lit                  *)
(* A chain of bindings that never ends makes Python raise RecursionError;  *)
(* a chain without a cycle has at most one step per key of the dict.       *)
(***************************************************************************)
TermOk(t) == [st |-> "ok", t |-> t]
TermRaised == [st |-> "RecursionError", t |-> Constant("")]

RECURSIVE apply_subst_walk(_, _, _)
apply_subst_walk(s, t, fuel) ==
    IF is_var(t) /\ t.name \in DOMAIN s THEN
        IF fuel = 0 THEN TermRaised ELSE apply_subst_walk(s, s[t.name], fuel - 1)
    ELSE TermOk(t)

apply_subst_term(s, t) == apply_subst_walk(s, t, Cardinality(DOMAIN s))

\* [st, p]: the predicate with every argument dereferenced, rebuilt with a list
apply_subst_pred(s, p) ==
    IF \E i \in 1..Len(p.args) : apply_subst_term(s, p.args[i]).st # "ok"
        THEN [st |-> "RecursionError", p |-> p]
    ELSE [st |-> "ok",
          p |-> Predicate(p.name,
                          [i \in 1..Len(p.args) |-> apply_subst_term(s, p.args[i]).t],
                          "list")]

apply_subst_lit(s, l) ==
    LET r == apply_subst_pred(s, l.pred) IN
    [st |-> r.st, l |-> Literal(r.p, l.neg)]

(***************************************************************************)
(* First_Order_Logic.py : unify_terms, unify_preds                         *)
(***************************************************************************)
\* Mutant of fol_bind: the binding is written into the caller's dict.
fol_bind_in_place(s, n, t) ==
    LET new_s == Put(s, n, t) IN Returned(new_s, new_s)

\* new = subst.copy(); new[name] = t; return new
fol_bind(s, n, t) ==
    LET new_s == Put(s, n, t) IN Returned(new_s, s)

\* unify_terms recurses once per binding it follows; without a cycle that is
\* at most one step per key for each of the two terms.
RECURSIVE fol_unify_walk(_, _, _, _)
fol_unify_walk(t1, t2, s, fuel) ==
    IF is_var(t1) /\ t1.name \in DOMAIN s THEN
        IF fuel = 0 THEN Raised(s) ELSE fol_unify_walk(s[t1.name], t2, s, fuel - 1)
    ELSE IF is_var(t2) /\ t2.name \in DOMAIN s THEN
        IF fuel = 0 THEN Raised(s) ELSE fol_unify_walk(t1, s[t2.name], s, fuel - 1)
    ELSE IF is_var(t1) THEN fol_bind(s, t1.name, t2)
    ELSE IF is_var(t2) THEN fol_bind(s, t2.name, t1)
    ELSE IF is_const(t1) /\ is_const(t2) /\ t1.name = t2.name THEN Returned(s, s)
    ELSE ReturnedNone(s)

fol_unify_terms(t1, t2, s) == fol_unify_walk(t1, t2, s, 2 * Cardinality(DOMAIN s))

RECURSIVE unify_preds_args(_, _, _, _)
unify_preds_args(args1, args2, i, s) ==
    IF i > Len(args1) \/ i > Len(args2) THEN Returned(s, s)
    ELSE LET r == fol_unify_terms(args1[i], args2[i], s) IN
         IF r.st # "ok" THEN r ELSE unify_preds_args(args1, args2, i + 1, r.s)

\* s = subst.copy(), then the loop over the argument pairs
unify_preds(p1, p2, s) ==
    IF p1.name # p2.name \/ Len(p1.args) # Len(p2.args) THEN ReturnedNone(s)
    ELSE [unify_preds_args(p1.args, p2.args, 1, s) EXCEPT !.arg = s]

\* The terms and predicates the calls of the prover's unifier are drawn from.
FolVarNames == {"x", "y"}
FolConstNames == {"a", "b"}
FolTerms == {Variable(n) : n \in FolVarNames} \cup {Constant(n) : n \in FolConstNames}
FolPreds == {pred("P", <<s, t>>) : s \in FolTerms, t \in FolTerms}
            \cup {pred("P", <<t>>) : t \in FolTerms}
            \cup {pred("Q", <<t>>) : t \in FolTerms}

(***************************************************************************)
(* First_Order_Logic.py : resolve                                          *)
(***************************************************************************)
\* the orders in which Python may iterate over a set
Perms(S) ==
    LET n == Cardinality(S) IN
    {f \in [1..n -> S] : \A i, j \in 1..n : i # j => f[i] # f[j]}

\* hash(literal) raises TypeError when the predicate's args is a list
Hashable(l) == l.pred.argsType = "tuple"

\* the test of line 102 (and 118)
Complementary(a, b) ==
    /\ a.pred.name = b.pred.name
    /\ a.neg # b.neg
    /\ Len(a.pred.args) = Len(b.pred.args)

\* eq of lines 120-122
SameArgs(a, b) ==
    \A i \in 1..Len(a.pred.args) :
        LET x == a.pred.args[i]
            y == b.pred.args[i]
        IN  \/ is_const(x) /\ is_const(y) /\ x.name = y.name
            \/ is_var(x) /\ is_var(y) /\ x.name = y.name

\* Mutant of tautology: only constant arguments are compared.
tautology_consts_only(new_lits) ==
    \E a \in new_lits, b \in new_lits :
        /\ Complementary(a, b)
        /\ \A i \in 1..Len(a.pred.args) :
              /\ is_const(a.pred.args[i]) /\ is_const(b.pred.args[i])
              /\ a.pred.args[i].name = b.pred.args[i].name

\* the flag set by the loops of lines 115-127
tautology(new_lits) ==
    \E a \in new_lits, b \in new_lits : Complementary(a, b) /\ SameArgs(a, b)

\* What resolve does with one pair of literals (l1 of clause1, l2 of clause2),
\* the clauses being iterated in the orders o1 and o2: "skip" (not
\* complementary, or not unifiable), "discarded" (tautology), "resolvent", or
\* the exception raised.  lits are the literals of new_lits for a tautology
\* and those of cleaned otherwise.
resolve_pair(o1, o2, l1, l2) ==
    IF ~Complementary(l1, l2) THEN [kind |-> "skip", lits |-> {}]
    ELSE
    LET theta == unify_preds(l1.pred, l2.pred, EmptyDict) IN
    IF theta.st = "RecursionError" THEN [kind |-> "RecursionError", lits |-> {}]
    ELSE IF theta.st = "None" THEN [kind |-> "skip", lits |-> {}]
    ELSE
    LET rest == SelectSeq(o1, LAMBDA x : ~lit_eq(x, l1))
                    \o SelectSeq(o2, LAMBDA x : ~lit_eq(x, l2))
        applied == [k \in DOMAIN rest |-> apply_subst_lit(theta.s, rest[k])]
    IN  IF \E k \in DOMAIN applied : applied[k].st # "ok"
            THEN [kind |-> "RecursionError", lits |-> {}]
        ELSE
        LET new_lits == [k \in DOMAIN applied |-> applied[k].l]
            cleaned == frozenset(new_lits)
        IN
        IF tautology({new_lits[k] : k \in DOMAIN new_lits})
            THEN [kind |-> "discarded",
                  lits |-> {new_lits[k] : k \in DOMAIN new_lits}]
        ELSE IF \E a \in cleaned : ~Hashable(a)
            THEN [kind |-> "TypeError", lits |-> cleaned]
        ELSE [kind |-> "resolvent", lits |-> cleaned]

\* the literal pairs in the order of the nested loops of lines 100-101
LitPairs(o1, o2) ==
    [k \in 1..(Len(o1) * Len(o2)) |->
        <<o1[((k - 1) \div Len(o2)) + 1], o2[((k - 1) % Len(o2)) + 1]>>]

RECURSIVE resolve_walk(_, _, _, _, _)
resolve_walk(o1, o2, pairs, k, acc) ==
    IF k > Len(pairs) THEN acc
    ELSE LET o == resolve_pair(o1, o2, pairs[k][1], pairs[k][2])
             seen == Append(acc.candidates, o)
         IN  IF o.kind \in {"TypeError", "RecursionError"}
                 THEN [acc EXCEPT !.st = o.kind, !.candidates = seen]
             ELSE IF o.kind = "resolvent"
                 THEN resolve_walk(o1, o2, pairs, k + 1,
                        [acc EXCEPT !.resolvents = Append(@, o.lits),
                                    !.candidates = seen])
             ELSE resolve_walk(o1, o2, pairs, k + 1,
                        [acc EXCEPT !.candidates = seen])

\* resolve(clause1, clause2), the clauses being iterated in the orders o1, o2:
\* st is "ok" or the exception raised, resolvents the list returned,
\* candidates what was done with every literal pair visited
resolve(clause1, clause2, o1, o2) ==
    resolve_walk(o1, o2, LitPairs(o1, o2), 1,
                 [st |-> "ok", resolvents |-> <<>>, candidates |-> <<>>])

(***************************************************************************)
(* First_Order_Logic.py : fol_resolution                                   *)
(***************************************************************************)
\* max_iters=10000
DefaultMaxIters == 10000

\* itertools.combinations(enumerate(clause_list), 2)
RECURSIVE CombosFrom(_, _, _)
CombosFrom(clause_list, i, j) ==
    IF i >= Len(clause_list) THEN <<>>
    ELSE IF j > Len(clause_list) THEN CombosFrom(clause_list, i + 1, i + 2)
    ELSE <<<<clause_list[i], clause_list[j]>>>> \o CombosFrom(clause_list, i, j + 1)

Combinations(clause_list) == CombosFrom(clause_list, 1, 2)

\* for c in order: agenda.append((r, c))
PairsWith(r, order) == [k \in 1..Len(order) |-> <<r, order[k]>>]

\* The body of "for r in resolvents" from resolvent k on, on the loop state
\* st = [clauses, new, agenda, proved]: the set of states it can end in, one
\* for every order in which the sets clauses and new are iterated.
RECURSIVE for_resolvents(_, _, _)
for_resolvents(resolvents, k, st) ==
    IF k > Len(resolvents) THEN {st}
    ELSE LET r == resolvents[k] IN
         IF r = {} THEN {[st EXCEPT !.proved = TRUE]}
         ELSE IF ~clause_in(r, st.clauses) /\ ~clause_in(r, st.new) THEN
             LET new1 == st.new \cup {r} IN
             UNION {for_resolvents(resolvents, k + 1,
                        [st EXCEPT !.new = new1,
                                   !.agenda = @ \o PairsWith(r, oc) \o PairsWith(r, on)])
                    : oc \in Perms(st.clauses), on \in Perms(new1)}
         ELSE for_resolvents(resolvents, k + 1, st)

\* lines 182-189: when the agenda is empty and clauses are pending, merge them
\* and requeue the pairs not yet checked
fold(st, checked) ==
    IF st.agenda = <<>> /\ st.new # {} THEN
        LET merged == set_update(st.clauses, st.new) IN
        {[st EXCEPT !.clauses = merged, !.new = {},
                    !.agenda = SelectSeq(Combinations(clause_list),
                                         LAMBDA pr : ~pair_in(pr, checked))]
         : clause_list \in Perms(merged)}
    ELSE {st}

(***************************************************************************)
(* The inputs of the prover                                                *)
(***************************************************************************)
\* build_example_kb, its predicates built with args of type ty: the list of
\* the lists of literals it hands to frozenset
ExampleKB(ty) ==
    LET alice == Constant("alice")
        bob == Constant("bob")
        charlie == Constant("charlie")
        x == Variable("x")
        y == Variable("y")
        z == Variable("z")
    IN  << <<Literal(Predicate("parent", <<alice, bob>>, ty), FALSE)>>,
           <<Literal(Predicate("parent", <<bob, charlie>>, ty), FALSE)>>,
           <<Literal(Predicate("parent", <<x, y>>, ty), TRUE),
             Literal(Predicate("parent", <<y, z>>, ty), TRUE),
             Literal(Predicate("grandparent", <<x, z>>, ty), FALSE)>> >>

\* the queries on the example knowledge base
ExampleQueries(ty) ==
    {Predicate("grandparent", <<Constant("alice"), Constant(w)>>, ty)
        : w \in {"charlie", "diana"}}

\* The clauses the generated knowledge bases are made of, each the list of
\* literals handed to frozenset.  The last two hold a variable named like the
\* constant a, and the first clause once more.
ClausePool(ty) ==
    LET a == Constant("a")
        b == Constant("b")
        x == Variable("x")
        va == Variable("a")
        P(n, t) == Predicate(n, <<t>>, ty)
    IN  << <<Literal(P("p", a), FALSE)>>,
           <<Literal(P("q", b), FALSE)>>,
           <<Literal(P("p", x), FALSE), Literal(P("q", x), FALSE)>>,
           <<Literal(P("p", x), TRUE)>>,
           <<Literal(P("p", a), FALSE), Literal(P("q", x), FALSE)>>,
           <<Literal(P("p", a), TRUE), Literal(P("q", x), TRUE)>>,
           <<Literal(P("p", va), FALSE), Literal(P("p", a), FALSE)>>,
           <<Literal(P("p", a), FALSE)>> >>

\* the list of the clauses of pool whose indexes are in I, in the order of pool
RECURSIVE SubList(_, _)
SubList(pool, I) ==
    IF I = {} THEN <<>>
    ELSE LET m == CHOOSE i \in I : \A k \in I : i <= k
         IN  <<pool[m]>> \o SubList(pool, I \ {m})

PoolQueries(ty) ==
    {Predicate("p", <<Constant(c)>>, ty) : c \in {"a", "b"}}

\* How the caller builds the predicates of the knowledge base (ty[1]) and of
\* the query (ty[2]): with pred(), whose args is a list, or with a tuple of
\* arguments
BuiltWith == {<<"list", "list">>, <<"tuple", "tuple">>, <<"tuple", "list">>}

Inputs ==
    UNION { {[name |-> "example", kb |-> ExampleKB(ty[1]), query |-> q,
              argsType |-> ty[1], verbose |-> v]
                : q \in ExampleQueries(ty[2]), v \in BOOLEAN}
            \cup
            {[name |-> "pool", kb |-> kb, query |-> q,
              argsType |-> ty[1], verbose |-> v]
                : kb \in {SubList(ClausePool(ty[1]), I) :
                            I \in {k \in SUBSET DOMAIN ClausePool(ty[1]) :
                                      Cardinality(k) <= MaxKB}},
                  q \in PoolQueries(ty[2]), v \in BOOLEAN}
          : ty \in BuiltWith }

Budgets == (0..MaxIters) \cup {100, DefaultMaxIters}

(***************************************************************************)
(* The prover as a state machine                                           *)
(***************************************************************************)
NoInput == [name |-> "none", kb |-> <<>>, query |-> pred("p", <<>>),
            argsType |-> "list", verbose |-> FALSE]
NoResolve == [c1 |-> {}, c2 |-> {}, st |-> "none",
              resolvents |-> <<>>, candidates |-> <<>>]
NoRun == [max_iters |-> 0, verdict |-> "none", exit |-> "none"]

\* the state of fol_resolution before its first line
Fresh ==
    /\ verdict = "none"
    /\ exit = "none"
    /\ clauses = {}
    /\ new = {}
    /\ pairs_checked = {}
    /\ agenda = <<>>
    /\ iterations = 0
    /\ last = NoResolve

SearchIdle ==
    /\ inp = NoInput
    /\ max_iters = 0
    /\ pc = "idle"
    /\ prev = NoRun
    /\ Fresh

UnifyIdle ==
    /\ mode = "prover"
    /\ subst = EmptyDict
    /\ call = [fn |-> "none", a |-> Const("a"), b |-> Const("a"), s |-> EmptyDict]
    /\ ret = [st |-> "ok", s |-> EmptyDict, arg |-> EmptyDict]
    /\ ncalls = 0

Init ==
    /\ UnifyIdle
    /\ inp \in Inputs
    /\ max_iters \in Budgets
    /\ pc = "build"
    /\ prev = NoRun
    /\ Fresh

\* the run ends with an exception
Raise(e) ==
    /\ pc' = "done"
    /\ verdict' = e
    /\ exit' = "raised"

\* The caller builds the clauses of the knowledge base as frozensets of
\* literals (build_example_kb): hashing a literal whose args is a list raises.
Build ==
    /\ pc = "build"
    /\ IF \E i \in DOMAIN inp.kb : \E k \in DOMAIN inp.kb[i] : ~Hashable(inp.kb[i][k])
          THEN Raise("TypeError")
          ELSE pc' = "call" /\ UNCHANGED <<verdict, exit>>
    /\ UNCHANGED <<inp, max_iters, clauses, new, pairs_checked, agenda,
                   iterations, last, prev, uvars>>

\* kb_clauses: the frozensets the caller built
kb_clauses == [i \in DOMAIN inp.kb |-> frozenset(inp.kb[i])]

\* fol_resolution, lines 142-160
Start ==
    /\ pc = "call"
    /\ LET neg_query == {Literal(inp.query, TRUE)} IN
       IF ~Hashable(Literal(inp.query, TRUE)) THEN
           \* line 143 raises after line 142 assigned clauses
           /\ Raise("TypeError")
           /\ clauses' = set_of(kb_clauses)
           /\ UNCHANGED agenda
       ELSE IF inp.verbose THEN
           \* clause_str -> lit_str -> pred_str(l) reads l.name of a Literal
           /\ Raise("AttributeError")
           /\ clauses' = set_add(set_of(kb_clauses), neg_query)
           /\ UNCHANGED agenda
       ELSE
           /\ clauses' = set_add(set_of(kb_clauses), neg_query)
           /\ \E clause_list \in Perms(set_add(set_of(kb_clauses), neg_query)) :
                 agenda' = Combinations(clause_list)
           /\ pc' = "loop"
           /\ UNCHANGED <<verdict, exit>>
    /\ UNCHANGED <<inp, max_iters, new, pairs_checked, iterations, last, prev, uvars>>

\* while agenda and iterations < max_iters
LoopCondition == agenda # <<>> /\ iterations < max_iters

\* the loop condition holds and the body is entered: lines 161-163
Pop ==
    /\ pc = "loop"
    /\ LoopCondition
    /\ iterations' = iterations + 1

\* one iteration of the while loop, lines 161-189
Step ==
    /\ Pop
    /\ LET c1 == Head(agenda)[1]
           c2 == Head(agenda)[2]
       IN
       IF pair_in(<<c1, c2>>, pairs_checked) THEN
           /\ agenda' = Tail(agenda)
           /\ UNCHANGED <<pc, verdict, exit, clauses, new, pairs_checked, last>>
       ELSE
           /\ pairs_checked' = pairs_checked \cup {<<c1, c2>>}
           /\ \E o1 \in Perms(c1), o2 \in Perms(c2) :
               LET res == resolve(c1, c2, o1, o2) IN
               /\ last' = [c1 |-> c1, c2 |-> c2, st |-> res.st,
                           resolvents |-> res.resolvents,
                           candidates |-> res.candidates]
               /\ IF res.st # "ok" THEN
                      /\ Raise(res.st)
                      /\ agenda' = Tail(agenda)
                      /\ UNCHANGED <<clauses, new>>
                  ELSE
                      \E st \in for_resolvents(res.resolvents, 1,
                                   [clauses |-> clauses, new |-> new,
                                    agenda |-> Tail(agenda), proved |-> FALSE]) :
                          IF st.proved THEN
                              /\ pc' = "done"
                              /\ verdict' = "True"
                              /\ exit' = "proved"
                              /\ agenda' = st.agenda
                              /\ new' = st.new
                              /\ UNCHANGED clauses
                          ELSE
                              \E f \in fold(st, pairs_checked') :
                                  /\ clauses' = f.clauses
                                  /\ new' = f.new
                                  /\ agenda' = f.agenda
                                  /\ UNCHANGED <<pc, verdict, exit>>
    /\ UNCHANGED <<inp, max_iters, prev, uvars>>

\* the loop condition fails: lines 191-193
Return ==
    /\ pc = "loop"
    /\ ~LoopCondition
    /\ pc' = "done"
    /\ verdict' = "False"
    /\ exit' = IF agenda # <<>> THEN "budget"
               ELSE IF iterations < max_iters THEN "drained"
               ELSE "drained at budget"
    /\ UNCHANGED <<inp, max_iters, clauses, new, pairs_checked, agenda,
                   iterations, last, prev, uvars>>

Next == Build \/ Start \/ Step \/ Return

Spec == Init /\ [][Next]_vars

\* The interpreter runs the one thread of the program: a statement that can
\* be executed is executed, and a loop body that is entered (Pop) is the
\* whole iteration Step.
SpecFair ==
    /\ Init /\ [][Next]_vars
    /\ WF_vars(Build) /\ WF_vars(Start) /\ WF_iterations(Pop) /\ WF_vars(Return)

\* The program is run a second time on the same knowledge base and query, in
\* another process: the sets are iterated in orders of their own.
Rerun ==
    /\ pc = "done"
    /\ prev = NoRun
    /\ prev' = [max_iters |-> max_iters, verdict |-> verdict, exit |-> exit]
    /\ max_iters' \in Budgets
    /\ pc' = "build"
    /\ verdict' = "none"
    /\ exit' = "none"
    /\ clauses' = {}
    /\ new' = {}
    /\ pairs_checked' = {}
    /\ agenda' = <<>>
    /\ iterations' = 0
    /\ last' = NoResolve
    /\ UNCHANGED <<inp, uvars>>

NextTwoRuns == Build \/ Start \/ Step \/ Return \/ Rerun

SpecTwoRuns == Init /\ [][NextTwoRuns]_vars

(***************************************************************************)
(* The callers of the two unifiers: each threads one substitution through  *)
(* successive calls, keeping the dict it holds when a call fails.          *)
(***************************************************************************)
NoCall == [fn |-> "none", a |-> Const("a"), b |-> Const("a"), s |-> EmptyDict]
NoRet == Returned(EmptyDict, EmptyDict)

InitUnify ==
    /\ mode \in {"robinson", "fol"}
    /\ subst = EmptyDict
    /\ call = NoCall
    /\ ret = NoRet
    /\ ncalls = 0
    /\ SearchIdle

\* the caller passes the dict it holds to unify_terms of Unification_Algorithm.py
RobinsonCall ==
    /\ mode = "robinson"
    /\ call = NoCall
    /\ ncalls < MaxCalls
    /\ \E t1 \in Terms, t2 \in Terms :
        /\ call' = [fn |-> "unify_terms", a |-> t1, b |-> t2, s |-> subst]
        /\ ret' = unify_terms(t1, t2, subst)
    /\ ncalls' = ncalls + 1
    /\ UNCHANGED <<mode, subst, svars>>

\* the caller passes the dict it holds to unify_terms of First_Order_Logic.py
FolTermsCall ==
    /\ mode = "fol"
    /\ call = NoCall
    /\ ncalls < MaxCalls
    /\ \E t1 \in FolTerms, t2 \in FolTerms :
        /\ call' = [fn |-> "fol_unify_terms", a |-> t1, b |-> t2, s |-> subst]
        /\ ret' = fol_unify_terms(t1, t2, subst)
    /\ ncalls' = ncalls + 1
    /\ UNCHANGED <<mode, subst, svars>>

\* the caller passes the dict it holds to unify_preds
FolPredsCall ==
    /\ mode = "fol"
    /\ call = NoCall
    /\ ncalls < MaxCalls
    /\ \E p1 \in FolPreds, p2 \in FolPreds :
        /\ call' = [fn |-> "unify_preds", a |-> p1, b |-> p2, s |-> subst]
        /\ ret' = unify_preds(p1, p2, subst)
    /\ ncalls' = ncalls + 1
    /\ UNCHANGED <<mode, subst, svars>>

\* The call has returned (an exception ends the caller): the caller goes on
\* with the returned dict, or, after None, with the dict object it passed.
Adopt ==
    /\ call # NoCall
    /\ ret.st # "RecursionError"
    /\ ncalls < MaxCalls
    /\ subst' = IF ret.st = "ok" THEN ret.s ELSE ret.arg
    /\ call' = NoCall
    /\ ret' = NoRet
    /\ UNCHANGED <<mode, ncalls, svars>>

NextUnify == RobinsonCall \/ FolTermsCall \/ FolPredsCall \/ Adopt

SpecUnify == InitUnify /\ [][NextUnify]_vars

(***************************************************************************)
(* Properties of the unifiers                                              *)
(***************************************************************************)
RobinsonReturned == mode = "robinson" /\ call.fn = "unify_terms" /\ ret.st = "ok"

\* C1 (unification soundness): whenever unify_terms of Unification_Algorithm.py
\* returns a substitution theta for t1 and t2, apply_subst(theta, t1) and
\* apply_subst(theta, t2) are structurally equal.
C1_Soundness ==
    RobinsonReturned => apply_subst(ret.s, call.a) = apply_subst(ret.s, call.b)

\* a call of unify (empty input substitution) on two compound terms that had to
\* bind both variables
C1_Witness ==
    /\ RobinsonReturned
    /\ call.s = EmptyDict
    /\ call.a.kind = "Func" /\ call.b.kind = "Func" /\ call.a # call.b
    /\ DOMAIN ret.s = VarNames

\* the variable names written in a term
RECURSIVE VarsIn(_)
VarsIn(t) ==
    IF t.kind = "Var" THEN {t.name}
    ELSE IF t.kind = "Const" THEN {}
    ELSE UNION {VarsIn(t.args[i]) : i \in 1..Len(t.args)}

\* the variable names met when the bindings of s are followed from the names V
RECURSIVE Reach(_, _, _)
Reach(s, V, n) ==
    IF n = 0 THEN V
    ELSE Reach(s, V \cup UNION {VarsIn(s[v]) : v \in V \cap DOMAIN s}, n - 1)

\* v is bound, directly or through other bindings, to a term that contains v
BoundToItself(s, v) ==
    v \in DOMAIN s /\ v \in Reach(s, VarsIn(s[v]), Cardinality(DOMAIN s))

\* the term at the end of the chain of variable bindings that starts at t
RECURSIVE ChainEnd(_, _, _)
ChainEnd(s, t, n) ==
    IF n > 0 /\ t.kind = "Var" /\ t.name \in DOMAIN s THEN ChainEnd(s, s[t.name], n - 1)
    ELSE t

\* the call asks to bind the unbound variable a to a compound term in which a
\* occurs, possibly only through the bindings of the input substitution
OccursCase(a, b, s) ==
    /\ a.kind = "Var" /\ a.name \notin DOMAIN s
    /\ ChainEnd(s, b, Cardinality(DOMAIN s)).kind = "Func"
    /\ a.name \in Reach(s, VarsIn(b), Cardinality(DOMAIN s))

\* C2 (occurs-check): unify_terms never returns a substitution that binds a
\* variable to a term which, dereferenced, contains that variable; binding x
\* to a compound term in which x occurs, directly or through the bindings of
\* the input substitution, returns None.
C2_OccursCheck ==
    mode = "robinson" /\ call.fn = "unify_terms" =>
        /\ ret.st = "ok" => \A v \in DOMAIN ret.s : ~BoundToItself(ret.s, v)
        /\ OccursCase(call.a, call.b, call.s) \/ OccursCase(call.b, call.a, call.s)
              => ret.st = "None"

\* x against y where the input substitution binds y to a compound term with x
C2_Witness ==
    /\ mode = "robinson" /\ call.fn = "unify_terms"
    /\ call.a.kind = "Var" /\ call.b.kind = "Var" /\ call.a # call.b
    /\ OccursCase(call.a, call.b, call.s)
    /\ ret.st = "None"

\* the variable names left in a term that are keys of s
PendingKeys(s, t) == VarsIn(t) \cap DOMAIN s

\* C8 (idempotence of apply): for every substitution theta unify_terms returns
\* and every term t, applying theta twice gives what applying it once gives,
\* and no variable left in apply_subst(theta, t) is a key of theta.
C8_ApplyIdempotent ==
    RobinsonReturned =>
        \A t \in Terms :
            /\ apply_subst(ret.s, apply_subst(ret.s, t)) = apply_subst(ret.s, t)
            /\ PendingKeys(ret.s, apply_subst(ret.s, t)) = {}

\* a returned substitution with a chained binding: some key is bound to a term
\* that still holds a key
C8_Witness ==
    /\ RobinsonReturned
    /\ \E v \in DOMAIN ret.s : PendingKeys(ret.s, ret.s[v]) # {}

\* C9 (no mutation of the caller's substitution): after a call of unify_terms
\* of either script, or of unify_preds, the dict that was passed holds exactly
\* the bindings it held before the call, whether the call returned a
\* substitution, returned None or raised.
C9_CallerSubstUnchanged ==
    call.fn # "none" => ret.arg = call.s

\* a call on a non-empty substitution that returned an extension of it
C9_Witness ==
    /\ mode = "robinson" /\ call.fn = "unify_terms"
    /\ call.s # EmptyDict
    /\ ret.st = "ok" /\ DOMAIN ret.s # DOMAIN call.s

\* C10 (same variable in the prover's unifier): a substitution returned by
\* unify_terms / unify_preds of First_Order_Logic.py binds no variable to
\* itself, apply_subst_term terminates on it for every term, and unifying two
\* terms that are the same unbound variable returns the substitution unchanged.
C10_NoSelfBinding ==
    mode = "fol" /\ call.fn # "none" /\ ret.st = "ok" =>
        /\ \A v \in DOMAIN ret.s : ret.s[v] # Variable(v)
        /\ \A t \in FolTerms : apply_subst_term(ret.s, t).st = "ok"
        /\ (call.fn = "fol_unify_terms" /\ call.a = call.b /\ is_var(call.a)
                /\ call.a.name \notin DOMAIN call.s) => ret.s = call.s

(***************************************************************************)
(* Properties of the prover                                                *)
(***************************************************************************)
\* build_example_kb() as the script builds it, with pred()
build_example_kb == ExampleKB("list")

GrandparentQuery(w) == pred("grandparent", <<Constant("alice"), Constant(w)>>)

\* C3 (grandparent example): fol_resolution on build_example_kb() with the
\* query grandparent(alice, charlie) and the default budget ends with the
\* verdict Proved (returns True).
C3_GrandparentProved ==
    /\ inp.kb = build_example_kb
    /\ inp.query = GrandparentQuery("charlie")
    /\ max_iters = DefaultMaxIters
    /\ pc = "done"
    => verdict = "True"

\* C4 (non-entailment): fol_resolution on build_example_kb() with the query
\* grandparent(alice, diana) and a budget of 100 steps never reaches Proved
\* and ends with the not-proved verdict (returns False).
C4_NotEntailed ==
    /\ inp.kb = build_example_kb
    /\ inp.query = GrandparentQuery("diana")
    /\ max_iters = 100
    => /\ verdict # "True"
       /\ pc = "done" => verdict = "False"

\* two literals with the same predicate name and arity, opposite polarity and
\* identical argument lists
HasComplementaryPair(lits) ==
    \E a \in lits, b \in lits :
        /\ a.pred.name = b.pred.name
        /\ Len(a.pred.args) = Len(b.pred.args)
        /\ a.neg # b.neg
        /\ a.pred.args = b.pred.args

\* the clauses of the store and of the pending set that resolve derived
DerivedClauses ==
    {c \in clauses \cup new :
        ~clause_in(c, set_of(kb_clauses) \cup {{Literal(inp.query, TRUE)}})}

\* C5 (tautology elimination): no clause derived by resolve, pending or in the
\* store, holds two complementary literals with identical arguments; resolve
\* returns no such resolvent and discards every candidate that is one.
C5_TautologyEliminated ==
    /\ \A c \in DerivedClauses : ~HasComplementaryPair(c)
    /\ \A k \in 1..Len(last.resolvents) : ~HasComplementaryPair(last.resolvents[k])
    /\ \A k \in 1..Len(last.candidates) :
          HasComplementaryPair(last.candidates[k].lits)
              => last.candidates[k].kind = "discarded"

\* resolve returned after discarding a tautology whose complementary literals
\* have a variable as argument
C5_Witness ==
    /\ last.st = "ok"
    /\ \E k \in 1..Len(last.candidates) :
          /\ last.candidates[k].kind = "discarded"
          /\ \E a \in last.candidates[k].lits : is_var(a.pred.args[1])

\* C6 (exhaustion is a distinct verdict): a run that ends because the budget
\* is consumed reports a value different from the value of a run that ends in
\* any other way (Proved, or the agenda drained within the budget).
C6_ExhaustedDistinct ==
    /\ pc = "done"
    /\ prev.exit = "budget"
    /\ exit \in {"proved", "drained"}
    => verdict # prev.verdict

\* C7 (order independence): two runs on the same knowledge base and query with
\* the same budget, which differ only in the iteration orders of the sets,
\* end with the same verdict.
C7_OrderIndependent ==
    /\ pc = "done"
    /\ prev.max_iters = max_iters
    /\ prev.verdict \in {"True", "False"}
    /\ verdict \in {"True", "False"}
    => verdict = prev.verdict

(***************************************************************************)
(* The pairs fol_resolution hands to resolve                               *)
(***************************************************************************)
\* the names of the variables of a clause
ClauseVars(c) ==
    UNION {{l.pred.args[k].name :
               k \in {j \in DOMAIN l.pred.args : is_var(l.pred.args[j])}}
           : l \in c}

\* C11 (standardizing apart): the two clauses of every pair fol_resolution
\* passes to resolve have disjoint sets of variable names.
C11_StandardizedApart ==
    last.st # "none" => ClauseVars(last.c1) \cap ClauseVars(last.c2) = {}

\* the non-empty clauses resolve derived from the pair it was last called
\* with: the literals it passed to frozenset(cleaned)
DerivedByResolve ==
    {last.candidates[k].lits :
        k \in {j \in DOMAIN last.candidates :
                  /\ last.candidates[j].kind \in {"resolvent", "TypeError"}
                  /\ last.candidates[j].lits # {}}}

\* the clauses the agenda pairs with r, r being the first of the pair
EnqueuedWith(r) == {agenda[k][2] : k \in {j \in DOMAIN agenda : agenda[j][1] = r}}

\* C13 (pairs enqueued for a resolvent): a resolvent r derived by the last
\* call of resolve that was not in the store is pending, and the agenda pairs
\* it with every clause of the store, with no clause other than those of the
\* store and the other pending clauses, and never with itself.
C13_ResolventPairs ==
    \A r \in DerivedByResolve :
        ~clause_in(r, clauses) =>
            /\ r \in new
            /\ clauses \subseteq EnqueuedWith(r)
            /\ EnqueuedWith(r) \subseteq (clauses \cup new) \ {r}

\* C14 (bounded termination): every call of fol_resolution eventually reaches
\* a terminal verdict (it returns True or False), the number of pairs popped
\* from the agenda never exceeds max_iters, and with max_iters = 0 no pair is
\* popped or resolved.
C14_BoundedTermination ==
    /\ [](/\ iterations <= max_iters
          /\ max_iters = 0 => (pairs_checked = {} /\ last = NoResolve))
    /\ <>(pc = "done" /\ verdict \in {"True", "False"})

\* C15 (deduplication of the clause store): the store and the pending set
\* hold no clause in common and each holds a clause at most once, two clauses
\* being the same when they are equal as sets of literals; the agenda never
\* holds a pair twice; and the store never loses a clause it holds.
C15_Deduplicated ==
    /\ [](/\ \A c \in clauses : ~clause_in(c, new)
          /\ \A c \in clauses \cup new, d \in clauses \cup new :
                clause_eq(c, d) => c = d
          /\ \A i \in DOMAIN agenda, j \in DOMAIN agenda :
                pair_in(agenda[i], {agenda[j]}) => i = j)
    /\ [][\A c \in clauses : clause_in(c, clauses')]_vars

\* the knowledge base lists two equal clauses, the store holds one of them,
\* and resolve was computed for the pairs of the store, which is as it was
C15_Witness ==
    /\ pc = "done"
    /\ exit = "drained"
    /\ \E i \in DOMAIN inp.kb, j \in DOMAIN inp.kb :
          i # j /\ clause_eq(kb_clauses[i], kb_clauses[j])
    /\ Cardinality(clauses) = 2
    /\ Cardinality(pairs_checked) = 1
    /\ new = {}

(***************************************************************************)
(* Unification.py : the unifier on strings and (name, [args]) tuples       *)
(***************************************************************************)
\* A Python str is the sequence of its characters; a predicate term is the
\* tuple (name, list(args)) of make_predicate, its name a str.
Str(cs) == [kind |-> "str", chars |-> cs, args |-> <<>>]
make_predicate(name, args) == [kind |-> "tuple", chars |-> name, args |-> args]

LowerChars == {"a", "b", "c", "d", "e", "f", "g", "h", "i", "j", "k", "l", "m",
               "n", "o", "p", "q", "r", "s", "t", "u", "v", "w", "x", "y", "z"}
UpperChars == {"A", "B", "C", "D", "E", "F", "G", "H", "I", "J", "K", "L", "M",
               "N", "O", "P", "Q", "R", "S", "T", "U", "V", "W", "X", "Y", "Z"}

\* str.islower(): a cased character, and no uppercase one
islower(cs) ==
    /\ \E i \in DOMAIN cs : cs[i] \in LowerChars
    /\ \A i \in DOMAIN cs : cs[i] \notin UpperChars

\* sub in s, on two strs
Contains(s, sub) ==
    \E i \in 1..(Len(s) - Len(sub) + 1) : SubSeq(s, i, i + Len(sub) - 1) = sub

\* x in y, x a str: a substring of the str y, or an element of the tuple y
\* (its name; the list of its arguments is equal to no str)
In(x, y) ==
    IF y.kind = "str" THEN Contains(y.chars, x.chars)
    ELSE x.chars = y.chars

\* s.replace(old, new), old not empty
RECURSIVE Replace(_, _, _)
Replace(s, old, new_s) ==
    IF Len(s) < Len(old) THEN s
    ELSE IF SubSeq(s, 1, Len(old)) = old
        THEN new_s \o Replace(SubSeq(s, Len(old) + 1, Len(s)), old, new_s)
    ELSE <<s[1]>> \o Replace(Tail(s), old, new_s)

\* repr of a str without quotes in it, and of a (name, [args]) tuple
ReprStr(cs) == <<"'">> \o cs \o <<"'">>

RECURSIVE Repr(_)
RECURSIVE ReprItems(_, _)
ReprItems(items, k) ==
    IF k > Len(items) THEN <<>>
    ELSE (IF k > 1 THEN <<",", " ">> ELSE <<>>) \o Repr(items[k])
            \o ReprItems(items, k + 1)

Repr(t) ==
    IF t.kind = "str" THEN ReprStr(t.chars)
    ELSE <<"(">> \o ReprStr(t.chars) \o <<",", " ", "[">>
            \o ReprItems(t.args, 1) \o <<"]", ")">>

\* str(t)
py_str(t) == IF t.kind = "str" THEN t.chars ELSE Repr(t)

\* A dict keeps the order in which its keys were inserted: the sequence of
\* its items.
KeyIndex(subs, k) == CHOOSE i \in DOMAIN subs : subs[i].key = k
HasKey(subs, k) == \E i \in DOMAIN subs : subs[i].key = k

\* subs[k] = v
SetItem(subs, k, v) ==
    IF HasKey(subs, k) THEN [subs EXCEPT ![KeyIndex(subs, k)].val = v]
    ELSE Append(subs, [key |-> k, val |-> v])

\* the loop "for v in list(subs.keys())" of apply_substitution from key j on,
\* var being the key of item i
RECURSIVE apply_substitution_keys(_, _, _)
apply_substitution_keys(subs, i, j) ==
    IF j > Len(subs) THEN subs
    ELSE LET var == subs[i].key
             cur == py_str(subs[j].val)
         IN  IF Contains(cur, var) /\ subs[j].key # var
                 THEN apply_substitution_keys(
                        [subs EXCEPT ![j].val =
                            Str(Replace(cur, var, py_str(subs[i].val)))], i, j + 1)
             ELSE apply_substitution_keys(subs, i, j + 1)

\* the loop "for var, val in subs.items()" from item i on
RECURSIVE apply_substitution_items(_, _)
apply_substitution_items(subs, i) ==
    IF i > Len(subs) THEN subs
    ELSE apply_substitution_items(apply_substitution_keys(subs, i, 1), i + 1)

apply_substitution(subs) == apply_substitution_items(subs, 1)

\* Result of unify on strings: the dict returned (st = "dict") or None, and in
\* both cases s, the content of the dict object the call worked on.
StrReturned(subs) == [st |-> "dict", s |-> subs]
StrReturnedNone(subs) == [st |-> "None", s |-> subs]

\* lines 10-14 and 17-21: the variable v against t
unify_variable(v, t, subs) ==
    IF In(v, t) THEN StrReturnedNone(subs)
    ELSE StrReturned(apply_substitution(SetItem(subs, v.chars, t)))

\* unify(x, y, subs) of Unification.py
RECURSIVE unify_str(_, _, _)
RECURSIVE unify_zip(_, _, _, _)
unify_zip(xs, ys, k, subs) ==
    IF k > Len(xs) \/ k > Len(ys) THEN StrReturned(subs)
    ELSE LET r == unify_str(xs[k], ys[k], subs) IN
         IF r.st = "None" THEN r ELSE unify_zip(xs, ys, k + 1, r.s)

unify_str(x, y, subs) ==
    IF x = y THEN StrReturned(subs)
    ELSE IF x.kind = "str" /\ islower(x.chars) THEN unify_variable(x, y, subs)
    ELSE IF y.kind = "str" /\ islower(y.chars) THEN unify_variable(y, x, subs)
    ELSE IF x.kind = "tuple" /\ y.kind = "tuple" THEN
        IF x.chars # y.chars \/ Len(x.args) # Len(y.args)
            THEN StrReturnedNone(subs)
        ELSE unify_zip(x.args, y.args, 1, subs)
    ELSE StrReturnedNone(subs)

\* the terms unify is called with
StrAtoms == {Str(<<"x">>), Str(<<"y">>), Str(<<"A", "l", "e", "x">>),
             Str(<<"B", "o", "b">>)}
expr1 == make_predicate(<<"E", "a", "t", "s">>,
                        <<Str(<<"x">>), Str(<<"A", "p", "p", "l", "e">>)>>)
expr2 == make_predicate(<<"E", "a", "t", "s">>,
                        <<Str(<<"R", "i", "y", "a">>), Str(<<"y">>)>>)
StrTerms ==
    StrAtoms \cup {Str(<<"f">>), expr1, expr2}
        \cup {make_predicate(<<"f">>, <<t>>) : t \in StrAtoms}
        \cup {make_predicate(<<"f">>, <<make_predicate(<<"f">>, <<t>>)>>) : t \in StrAtoms}
        \cup {make_predicate(<<"g">>, <<s, t>>) : s \in StrAtoms, t \in StrAtoms}

\* The script calls unify(x, y) with no substitution: subs starts as {}.
InitStr ==
    /\ mode = "string"
    /\ subst = EmptyDict
    /\ call = NoCall
    /\ ret = NoRet
    /\ ncalls = 0
    /\ SearchIdle

StrUnifyCall ==
    /\ mode = "string"
    /\ call = NoCall
    /\ \E x \in StrTerms, y \in StrTerms :
          /\ call' = [fn |-> "unify", a |-> x, b |-> y, s |-> EmptyDict]
          /\ ret' = unify_str(x, y, EmptyDict)
    /\ UNCHANGED <<mode, subst, ncalls, svars>>

NextStr == StrUnifyCall

SpecStr == InitStr /\ [][NextStr]_vars

\* t is a variable of Unification.py: an all-lowercase str
IsVariable(t) == t.kind = "str" /\ islower(t.chars)

\* the variable v is an argument of u, at any depth
RECURSIVE OccursIn(_, _)
OccursIn(v, u) ==
    /\ u.kind = "tuple"
    /\ \E k \in DOMAIN u.args : u.args[k] = v \/ OccursIn(v, u.args[k])

\* C17 (occurs check of the string/tuple unifier): when exactly one side of
\* unify(x, y) is a variable v and the other a term u, the call returns None
\* exactly when v occurs as a variable inside u at any depth, and otherwise
\* returns the substitution that binds v to u.
C17_OccursCheck ==
    /\ call.fn = "unify"
    /\ IsVariable(call.a) # IsVariable(call.b)
    => LET v == IF IsVariable(call.a) THEN call.a ELSE call.b
           u == IF IsVariable(call.a) THEN call.b ELSE call.a
       IN  IF OccursIn(v, u) THEN ret.st = "None"
           ELSE ret = StrReturned(<<[key |-> v.chars, val |-> u]>>)

====
